---- MODULE Spec2Model ----
(***************************************************************************)
(* The skin-lesion prediction service, POST /predict, as found in the      *)
(* three revisions kept side by side in the repository:                    *)
(*   "app"    src/app.py           (single-file Flask application)         *)
(*   "main"   src/main.py          (single-file Flask application)         *)
(*   "server" src/server/*.py with src/services/*.py                       *)
(* A behaviour runs one revision: it boots (loads the model handle and the *)
(* store client) and then answers requests, each in a thread of its own.   *)
(* The "server" revision fails at its imports and answers none; its       *)
(* handler is kept as the code has it.                                     *)
(*                                                                         *)
(* Numbers.  A model score s in [0,1] is the integer s * Scale; a          *)
(* confidence on the percent scale is the integer percent * Scale, so      *)
(* "score * 100" is plain integer multiplication by 100.                   *)
(***************************************************************************)
EXTENDS Integers, Sequences, FiniteSets, TLC

VARIABLES
    pc,        \* "boot", "serving" or "crashed" (import of the module failed)
    rev,       \* the revision this process runs
    env,       \* what the installed framework objects offer (server revision)
    model,     \* process-wide model handle: "None" or "loaded"
    db,        \* process-wide store client: "None" or "client"
    store,     \* the prediction collection: document id -> record
    modelDocs, \* documents of the "models" collection (main.py writes one)
    arrived,   \* requests received so far
    nreq,      \* requests answered so far
    nextId,    \* number of uuid4() calls made so far, plus one
    clock,     \* what the next reading of the clock gives
    issued,    \* data.id of every 201 response given so far
    flight     \* the requests being handled at once, one per worker thread

vars == <<pc, rev, env, model, db, store, modelDocs, arrived, nreq, nextId,
          clock, issued, flight>>

-----------------------------------------------------------------------------
(* Bounds and domains of the inputs                                        *)

MaxRequests == 2

\* worker threads that handle requests at the same time
MaxInFlight == 2

Workers == 1..MaxInFlight

Scale == 1000 * 1000

\* one half as a score: confidence exactly 50.0
Half == Scale \div 2

\* the score vectors the model returns:
\*   three scores, the third class largest, confidence 50.0001
\*   three scores, a tie of the second and third class, confidence 50.0
\*   three scores, all zero: a tie of all classes, confidence 0.0
\*   two scores, the second largest, confidence 50.0001
\*   four scores, the fourth largest: an arg-max index without a class
Vectors ==
    { <<0, 0, Half + 1>>, <<0, Half, Half>>, <<0, 0, 0>>,
      <<0, Half + 1>>, <<0, 0, 0, Half>> }

\* the score vectors of the requests during which the store raises
StoreFailVectors == { <<0, Half, Half>> }

Revisions == {"app", "main", "server"}

\* A request together with what its environment does while it is handled:
\*   hasImage     the multipart body has a file field named "image"
\*   imageOk      the bytes of that field decode as an image
\*   modelRaises  invoking the model on the decoded image raises
\*   scores       the score vector the model returns otherwise
\*   storeRaises  the store raises when asked to write
\* Fields that no revision can consult (the bytes of a missing file, the
\* model's answer to an image that was never decoded, the store during a
\* request that is not classified) are held at a default.
Requests ==
    LET mk(h, i, m, s, w) ==
            [hasImage |-> h, imageOk |-> i, modelRaises |-> m, scores |-> s,
             storeRaises |-> w]
    IN  {mk(FALSE, FALSE, FALSE, <<>>, FALSE),
         mk(TRUE, FALSE, FALSE, <<>>, FALSE),
         mk(TRUE, TRUE, TRUE, <<>>, FALSE)}
        \cup {mk(TRUE, TRUE, FALSE, s, FALSE) : s \in Vectors}
        \cup {mk(TRUE, TRUE, FALSE, s, TRUE) : s \in StoreFailVectors}

-----------------------------------------------------------------------------
(* Python values whose type decides what the code does                     *)

PyNum(n) == [num |-> n]
PyStr(s) == [str |-> s]
IsNum(v) == "num" \in DOMAIN v

Exc(kind, text) == [kind |-> kind, text |-> text]

-----------------------------------------------------------------------------
(* Tensor operations used by every revision                                *)

Max2(a, b) == IF a >= b THEN a ELSE b

\* tf.reduce_max / max(scores): the largest score
RECURSIVE ReduceMax(_)
ReduceMax(v) ==
    IF Len(v) = 1 THEN v[1] ELSE Max2(v[1], ReduceMax(Tail(v)))

\* an arg-max that lets the largest index win when several scores are equal
ArgMax_LastOnTies(v) ==
    (CHOOSE i \in 1..Len(v) :
        /\ v[i] = ReduceMax(v)
        /\ \A j \in (i + 1)..Len(v) : v[j] # ReduceMax(v)) - 1

\* tf.argmax(prediction, axis=1)[0]: the zero-based index of the largest
\* score, the smallest such index when several scores are equal
ArgMax(v) ==
    (CHOOSE i \in 1..Len(v) :
        /\ v[i] = ReduceMax(v)
        /\ \A j \in 1..(i - 1) : v[j] # ReduceMax(v)) - 1

\* classes = [...]: the ordered class list, the same in the three revisions
classes == <<"Melanocytic nevus", "Squamous cell carcinoma", "Vascular lesion">>

ClassSet == {classes[i] : i \in 1..Len(classes)}

-----------------------------------------------------------------------------
(* Responses and what handling one request yields                          *)

ErrorResponse(code, status, message) ==
    [code |-> code, status |-> status, message |-> message]

DataResponse(code, status, message, data) ==
    [code |-> code, status |-> status, message |-> message, data |-> data]

\* resp: the HTTP response; store: the prediction collection afterwards;
\* uuids: calls of uuid4() made; steps: what the handler did, in order
Outcome(resp, st, uuids, steps) ==
    [resp |-> resp, store |-> st, uuids |-> uuids, steps |-> steps]

HasData(resp) == "data" \in DOMAIN resp

-----------------------------------------------------------------------------
(* Revision "app": src/app.py                                              *)

\* class ClientError: status_code=400, inherited by InputError
ClientErrorStatusCode == 400

\* InputError(message): an exception carrying status_code and its text
InputErrorApp(message) ==
    [kind |-> "InputError", text |-> message, status_code |-> ClientErrorStatusCode]

\* the if/elif chain that picks (explanation, suggestion) for a label
AdvisoryApp(label) ==
    IF label = "Melanocytic nevus" THEN
        [explanation |-> "Melanocytic nevus adalah kondisi permukaan kulit memiliki bercak warna yang berasal dari sel-sel melanosit, yakni pembentukan warna kulit dan rambut.",
         suggestion |-> "Segera konsultasi dengan dokter terdekat jika ukuran semakin membesar dengan cepat, mudah luka, atau berdarah."]
    ELSE IF label = "Squamous cell carcinoma" THEN
        [explanation |-> "Squamous cell carcinoma adalah jenis kanker kulit yang umum dijumpai. Penyakit ini sering tumbuh pada bagian-bagian tubuh yang sering terkena sinar UV.",
         suggestion |-> "Segera konsultasi dengan dokter terdekat untuk meminimalisasi penyebaran kanker."]
    ELSE IF label = "Vascular lesion" THEN
        [explanation |-> "Vascular lesion adalah penyakit yang dikategorikan sebagai kanker atau tumor. Penyakit ini sering muncul pada bagian kepala dan leher.",
         suggestion |-> "Segera konsultasi dengan dokter terdekat untuk mengetahui detail terkait tingkat bahaya penyakit."]
    ELSE [explanation |-> "", suggestion |-> ""]

\* predict_classification(model, image_bytes): decode, invoke the model,
\* reduce_max * 100, argmax, label, advisory; whatever is raised on the way
\* is re-raised as InputError
PredictClassificationApp(mdl, req) ==
    LET wrap(text, steps) ==
            [ok |-> FALSE, steps |-> steps,
             exc |-> InputErrorApp("Terjadi kesalahan input: " \o text)]
    IN  IF ~req.imageOk THEN wrap("image could not be decoded", <<"decode">>)
        ELSE IF mdl = "None" THEN
            wrap("'NoneType' object has no attribute 'predict'", <<"decode">>)
        ELSE IF req.modelRaises THEN
            wrap("model invocation failed", <<"decode", "predict">>)
        ELSE
            LET prediction       == req.scores
                score            == ReduceMax(prediction)
                confidence_score == score * 100
                class_result     == ArgMax(prediction)
            IN  IF class_result >= Len(classes) THEN
                    wrap("list index out of range", <<"decode", "predict", "label">>)
                ELSE
                    LET label == classes[class_result + 1]
                        adv   == AdvisoryApp(label)
                    IN  [ok |-> TRUE,
                         steps |-> <<"decode", "predict", "label", "advise">>,
                         confidence_score |-> PyNum(confidence_score),
                         label |-> label,
                         explanation |-> adv.explanation,
                         suggestion |-> adv.suggestion]

\* store_data that writes every record to one document of the collection
\* instead of the document named by the record's id
StoreDataApp_OneDocument(st, dbh, raises, id, data) ==
    IF dbh # "None" /\ ~raises THEN (1 :> data) @@ st ELSE st

\* store_data(id, data): written when a client exists and the write does not
\* raise; an exception of the write is printed and swallowed
StoreDataApp(st, dbh, raises, id, data) ==
    IF dbh # "None" /\ ~raises THEN (id :> data) @@ st ELSE st

\* confidence_score > 0.99, confidence being on the percent scale
AboveThresholdApp(confidence_score) ==
    confidence_score.num > (99 * Scale) \div 100

\* post_predict_handler(), from image.read() on: the try block with its two
\* except clauses; pre is what the handler did before
TryPredictApp(mdl, dbh, st, req, id, now, pre0) ==
        LET r   == PredictClassificationApp(mdl, req)
            pre == pre0 \o <<"read_file">> \o r.steps
        IN  IF r.ok THEN
                LET data == [id |-> id, result |-> r.label,
                             suggestion |-> r.suggestion, createdAt |-> now]
                    message ==
                        IF AboveThresholdApp(r.confidence_score)
                        THEN "Model is predicted successfully."
                        ELSE "Model is predicted successfully but under threshold. Please use the correct picture"
                IN  Outcome(DataResponse(201, "success", message, data),
                            StoreDataApp(st, dbh, req.storeRaises, id, data), 1,
                            pre \o <<"uuid", "store", "respond">>)
            ELSE IF r.exc.kind = "InputError" THEN
                Outcome(ErrorResponse(r.exc.status_code, "fail", r.exc.text),
                        st, 0, pre)
            ELSE
                Outcome(ErrorResponse(500, "error",
                                      "Internal Server Error: " \o r.exc.text),
                        st, 0, pre)

\* post_predict_handler() with its two checks in the other order: the file
\* field is looked at before the model handle
PostPredictHandlerApp_FileCheckFirst(mdl, dbh, st, req, id, now) ==
    IF ~req.hasImage THEN
        Outcome(ErrorResponse(400, "fail", "No image provided"), st, 0,
                <<"check_file">>)
    ELSE IF mdl = "None" THEN
        Outcome(ErrorResponse(500, "error", "Model not loaded"), st, 0,
                <<"check_file", "check_model">>)
    ELSE TryPredictApp(mdl, dbh, st, req, id, now,
                       <<"check_file", "check_model">>)

\* post_predict_handler(): the route POST /predict
PostPredictHandlerApp(mdl, dbh, st, req, id, now) ==
    IF mdl = "None" THEN
        Outcome(ErrorResponse(500, "error", "Model not loaded"), st, 0,
                <<"check_model">>)
    ELSE IF ~req.hasImage THEN
        Outcome(ErrorResponse(400, "fail", "No image provided"), st, 0,
                <<"check_model", "check_file">>)
    ELSE TryPredictApp(mdl, dbh, st, req, id, now,
                       <<"check_model", "check_file">>)

-----------------------------------------------------------------------------
(* Revision "main": src/main.py                                            *)

\* the if/elif chain with one label misspelt, so that this class falls
\* through to the initial empty strings
AdvisoryMain_MisspeltLabel(label) ==
    IF label = "Melanocytic nevus" THEN
        [explanation |-> "Melanocytic nevus adalah kondisi permukaan kulit memiliki bercak warna yang berasal dari sel-sel melanosit.",
         suggestion |-> "Segera konsultasi dengan dokter jika ada perubahan ukuran atau warna."]
    ELSE IF label = "Squamous cell carcinoma" THEN
        [explanation |-> "Squamous cell carcinoma adalah jenis kanker kulit yang sering muncul di area terkena sinar UV.",
         suggestion |-> "Segera konsultasi dengan dokter untuk mencegah penyebaran."]
    ELSE IF label = "Vascular lesions" THEN
        [explanation |-> "Vascular lesion adalah tumor atau kanker yang sering muncul di kepala dan leher.",
         suggestion |-> "Konsultasikan dengan dokter untuk tindakan lebih lanjut."]
    ELSE [explanation |-> "", suggestion |-> ""]

\* the if/elif chain that picks (explanation, suggestion) for a label
AdvisoryMain(label) ==
    IF label = "Melanocytic nevus" THEN
        [explanation |-> "Melanocytic nevus adalah kondisi permukaan kulit memiliki bercak warna yang berasal dari sel-sel melanosit.",
         suggestion |-> "Segera konsultasi dengan dokter jika ada perubahan ukuran atau warna."]
    ELSE IF label = "Squamous cell carcinoma" THEN
        [explanation |-> "Squamous cell carcinoma adalah jenis kanker kulit yang sering muncul di area terkena sinar UV.",
         suggestion |-> "Segera konsultasi dengan dokter untuk mencegah penyebaran."]
    ELSE IF label = "Vascular lesion" THEN
        [explanation |-> "Vascular lesion adalah tumor atau kanker yang sering muncul di kepala dan leher.",
         suggestion |-> "Konsultasikan dengan dokter untuk tindakan lebih lanjut."]
    ELSE [explanation |-> "", suggestion |-> ""]

\* predict_classification(model, image_bytes): as in app.py, but whatever is
\* raised on the way is re-raised as ValueError
PredictClassificationMain(mdl, req) ==
    LET wrap(text, steps) ==
            [ok |-> FALSE, steps |-> steps,
             exc |-> Exc("ValueError", "Gagal melakukan prediksi: " \o text)]
    IN  IF ~req.imageOk THEN wrap("image could not be decoded", <<"decode">>)
        ELSE IF mdl = "None" THEN
            wrap("'NoneType' object has no attribute 'predict'", <<"decode">>)
        ELSE IF req.modelRaises THEN
            wrap("model invocation failed", <<"decode", "predict">>)
        ELSE
            LET predictions      == req.scores
                confidence_score == ReduceMax(predictions) * 100
                class_result     == ArgMax(predictions)
            IN  IF class_result >= Len(classes) THEN
                    wrap("list index out of range", <<"decode", "predict", "label">>)
                ELSE
                    LET label == classes[class_result + 1]
                        adv   == AdvisoryMain(label)
                    IN  [ok |-> TRUE,
                         steps |-> <<"decode", "predict", "label", "advise">>,
                         confidence_score |-> PyNum(confidence_score),
                         label |-> label,
                         explanation |-> adv.explanation,
                         suggestion |-> adv.suggestion]

\* store_prediction_data(data): written under data['id'] when a client
\* exists and the write does not raise; an exception is logged and swallowed
StorePredictionData(st, dbh, raises, data) ==
    IF dbh # "None" /\ ~raises THEN (data.id :> data) @@ st ELSE st

\* confidence_score > 50
AboveThresholdMain(confidence_score) == confidence_score.num > 50 * Scale

\* the try block of predict_handler() with a store_prediction_data that
\* lets the exception of the write out: the except clause of the handler
\* catches it and answers 500
TryPredictMain_StoreFailureSurfaces(mdl, dbh, st, req, id, now, pre0) ==
        LET r   == PredictClassificationMain(mdl, req)
            pre == pre0 \o <<"read_file">> \o r.steps
        IN  IF r.ok /\ dbh # "None" /\ req.storeRaises THEN
                Outcome(ErrorResponse(500, "error",
                                      "Kesalahan internal: store write failed"),
                        st, 1, pre \o <<"uuid", "store">>)
            ELSE IF r.ok THEN
                LET data == [id |-> id, result |-> r.label,
                             explanation |-> r.explanation,
                             suggestion |-> r.suggestion,
                             confidence |-> r.confidence_score,
                             createdAt |-> now]
                    pesan ==
                        IF AboveThresholdMain(r.confidence_score)
                        THEN "Prediksi berhasil"
                        ELSE "Prediksi diselesaikan dengan kepercayaan rendah"
                IN  Outcome(DataResponse(201, "sukses", pesan, data),
                            StorePredictionData(st, dbh, req.storeRaises, data), 1,
                            pre \o <<"uuid", "store", "respond">>)
            ELSE
                Outcome(ErrorResponse(500, "error",
                                      "Kesalahan internal: " \o r.exc.text),
                        st, 0, pre)

\* predict_handler(), from image.read() on: the try block with its except
\* clause; pre is what the handler did before
TryPredictMain(mdl, dbh, st, req, id, now, pre0) ==
        LET r   == PredictClassificationMain(mdl, req)
            pre == pre0 \o <<"read_file">> \o r.steps
        IN  IF r.ok THEN
                LET data == [id |-> id, result |-> r.label,
                             explanation |-> r.explanation,
                             suggestion |-> r.suggestion,
                             confidence |-> r.confidence_score,
                             createdAt |-> now]
                    pesan ==
                        IF AboveThresholdMain(r.confidence_score)
                        THEN "Prediksi berhasil"
                        ELSE "Prediksi diselesaikan dengan kepercayaan rendah"
                IN  Outcome(DataResponse(201, "sukses", pesan, data),
                            StorePredictionData(st, dbh, req.storeRaises, data), 1,
                            pre \o <<"uuid", "store", "respond">>)
            ELSE
                Outcome(ErrorResponse(500, "error",
                                      "Kesalahan internal: " \o r.exc.text),
                        st, 0, pre)

\* predict_handler() that answers from the collection once it holds a record
\* (a cache that is not keyed by the request) instead of classifying
PredictHandlerMain_AnswersFromStore(mdl, dbh, st, req, id, now) ==
    IF mdl = "None" THEN
        Outcome(ErrorResponse(500, "error", "Model tidak tersedia"), st, 0,
                <<"check_model">>)
    ELSE IF ~req.hasImage THEN
        Outcome(ErrorResponse(400, "gagal", "Tidak ada gambar"), st, 0,
                <<"check_model", "check_file">>)
    ELSE IF DOMAIN st # {} THEN
        Outcome(DataResponse(201, "sukses", "Prediksi berhasil",
                             st[CHOOSE i \in DOMAIN st : TRUE]), st, 0,
                <<"check_model", "check_file", "respond">>)
    ELSE TryPredictMain(mdl, dbh, st, req, id, now,
                        <<"check_model", "check_file">>)

\* predict_handler(): the route POST /predict
PredictHandlerMain(mdl, dbh, st, req, id, now) ==
    IF mdl = "None" THEN
        Outcome(ErrorResponse(500, "error", "Model tidak tersedia"), st, 0,
                <<"check_model">>)
    ELSE IF ~req.hasImage THEN
        Outcome(ErrorResponse(400, "gagal", "Tidak ada gambar"), st, 0,
                <<"check_model", "check_file">>)
    ELSE TryPredictMain(mdl, dbh, st, req, id, now,
                        <<"check_model", "check_file">>)

-----------------------------------------------------------------------------
(* Revision "server": src/server/*.py and src/services/*.py                *)

\* what the framework objects the code touches offer:
\*   requestHasApp    request.app.config['MODEL'] evaluates to the model
\*   tensorHasResize  the decoded tensor has a method resize
\* Flask's request object has no attribute app and a TensorFlow tensor has no
\* method resize, so both are false wherever the code runs
Envs == {[requestHasApp |-> FALSE, tensorHasResize |-> FALSE]}

\* exceptions.input_error.InputError: a client error, status_code 400,
\* whose text is also kept in the attribute message
InputErrorSvc(message) ==
    [kind |-> "InputError", text |-> message, message |-> message,
     status_code |-> 400]

\* the if/elif chain that picks (explanation, suggestion) for a label;
\* both start out as None
AdvisorySvc(label) ==
    IF label = "Melanocytic nevus" THEN
        [explanation |-> "Melanocytic nevus adalah kondisi permukaan kulit memiliki bercak warna yang berasal dari sel-sel melanosit, yakni pembentukan warna kulit dan rambut.",
         suggestion |-> "Segera konsultasi dengan dokter terdekat jika ukuran semakin membesar dengan cepat, mudah luka, atau berdarah."]
    ELSE IF label = "Squamous cell carcinoma" THEN
        [explanation |-> "Squamous cell carcinoma adalah jenis kanker kulit yang umum dijumpai. Penyakit ini sering tumbuh pada bagian-bagian tubuh yang sering terkena sinar UV.",
         suggestion |-> "Segera konsultasi dengan dokter terdekat untuk meminimalisasi penyebaran kanker."]
    ELSE IF label = "Vascular lesion" THEN
        [explanation |-> "Vascular lesion adalah penyakit yang dikategorikan sebagai kanker atau tumor. Penyakit ini sering muncul pada bagian kepala dan leher.",
         suggestion |-> "Segera konsultasi dengan dokter terdekat untuk mengetahui detail terkait tingkat bahaya penyakit."]
    ELSE [explanation |-> "None", suggestion |-> "None"]

\* predict_classification(model, image): decode_jpeg(...).resize(...),
\* model(tensor), max(scores) * 100, argmax, label, advisory, returned as a
\* dict; whatever is raised on the way is re-raised as InputError
PredictClassificationSvc(e, mdl, req) ==
    LET wrap(text, steps) ==
            [ok |-> FALSE, steps |-> steps,
             exc |-> InputErrorSvc("Terjadi kesalahan input: " \o text)]
    IN  IF ~req.imageOk THEN wrap("image could not be decoded", <<"decode">>)
        ELSE IF ~e.tensorHasResize THEN
            wrap("tensor object has no attribute 'resize'", <<"decode">>)
        ELSE IF mdl = "None" THEN
            wrap("'NoneType' object is not callable", <<"decode">>)
        ELSE IF req.modelRaises THEN
            wrap("model invocation failed", <<"decode", "predict">>)
        ELSE
            LET scores           == req.scores
                confidence_score == ReduceMax(scores) * 100
                class_result     == ArgMax(scores)
            IN  IF class_result >= Len(classes) THEN
                    wrap("list index out of range", <<"decode", "predict", "label">>)
                ELSE
                    LET label == classes[class_result + 1]
                        adv   == AdvisorySvc(label)
                    IN  [ok |-> TRUE,
                         steps |-> <<"decode", "predict", "label", "advise">>,
                         dict |-> [confidenceScore |-> PyNum(confidence_score),
                                   label |-> label,
                                   explanation |-> adv.explanation,
                                   suggestion |-> adv.suggestion]]

\* store_data(id, data): a client is made and the document written; nothing
\* is caught, so an exception of either leaves the function
StoreDataSvc(st, raises, id, data) ==
    IF raises
    THEN [ok |-> FALSE, store |-> st,
          exc |-> Exc("GoogleAPIError", "store write failed")]
    ELSE [ok |-> TRUE, store |-> (id :> data) @@ st]

\* confidence_score, label, explanation, suggestion = <dict>: unpacking a
\* dict binds the names to its keys, in the order the dict was built
UnpackSvc(dict) ==
    [confidence_score |-> PyStr("confidenceScore"), label |-> "label",
     explanation |-> "explanation", suggestion |-> "suggestion"]

\* confidence_score > 99: ordering a str against an int raises TypeError
AboveThresholdSvc(confidence_score) ==
    IF IsNum(confidence_score)
    THEN [ok |-> TRUE, value |-> confidence_score.num > 99 * Scale]
    ELSE [ok |-> FALSE,
          exc |-> Exc("TypeError", "'>' not supported between instances of 'str' and 'int'")]

\* post_predict_handler(): returns a response, or lets an exception out
PostPredictHandlerSvc(e, mdl, st, req, id, now) ==
    LET raised(exc, st2, uuids, steps) ==
            [raised |-> TRUE, exc |-> exc, store |-> st2, uuids |-> uuids,
             steps |-> steps]
        done(resp, st2, uuids, steps) ==
            [raised |-> FALSE, resp |-> resp, store |-> st2, uuids |-> uuids,
             steps |-> steps]
    IN  IF ~req.hasImage THEN
            done(ErrorResponse(400, "fail",
                               "File gambar tidak ditemukan dalam permintaan."),
                 st, 0, <<"check_file">>)
        ELSE IF ~e.requestHasApp THEN
            raised(Exc("AttributeError", "'Request' object has no attribute 'app'"),
                   st, 0, <<"check_file", "get_model">>)
        ELSE
            LET r   == PredictClassificationSvc(e, mdl, req)
                pre == <<"check_file", "get_model", "read_file">> \o r.steps
            IN  IF ~r.ok THEN raised(r.exc, st, 0, pre)
                ELSE
                    LET u    == UnpackSvc(r.dict)
                        data == [id |-> id, result |-> u.label,
                                 explanation |-> u.explanation,
                                 suggestion |-> u.suggestion,
                                 confidenceScore |-> u.confidence_score,
                                 createdAt |-> now]
                        w    == StoreDataSvc(st, req.storeRaises, id, data)
                        cmp  == AboveThresholdSvc(u.confidence_score)
                    IN  IF ~w.ok THEN
                            raised(w.exc, w.store, 1, pre \o <<"uuid", "store">>)
                        ELSE IF ~cmp.ok THEN
                            raised(cmp.exc, w.store, 1, pre \o <<"uuid", "store">>)
                        ELSE
                            done(DataResponse(201, "success",
                                     IF cmp.value
                                     THEN "Model is predicted successfully."
                                     ELSE "Model is predicted successfully but under threshold. Please use the correct picture.",
                                     data),
                                 w.store, 1,
                                 pre \o <<"uuid", "store", "respond">>)

\* @app.errorhandler(InputError)
HandleInputError(exc) ==
    ErrorResponse(exc.status_code, "fail",
                  exc.message \o " Silakan gunakan foto lain.")

\* @app.errorhandler(Exception)
HandleException(exc) == ErrorResponse(500, "fail", exc.text)

\* the route /predict: the handler's response, or the response of the error
\* handler registered for what it raised, the most specific class first
PredictRouteSvc(e, mdl, st, req, id, now) ==
    LET h == PostPredictHandlerSvc(e, mdl, st, req, id, now)
    IN  IF ~h.raised THEN Outcome(h.resp, h.store, h.uuids, h.steps)
        ELSE IF h.exc.kind = "InputError"
        THEN Outcome(HandleInputError(h.exc), h.store, h.uuids, h.steps)
        ELSE Outcome(HandleException(h.exc), h.store, h.uuids, h.steps)

-----------------------------------------------------------------------------
(* The process                                                             *)
(* The development server of Flask (app.run) runs every request in a       *)
(* thread of its own, so the handlers of several requests interleave       *)
(* between their accesses to what the process shares: the model handle,    *)
(* the store client, the uuid generator, the clock and the collection.     *)

\* POST /predict as the running revision r routes it
HandlePredict(r, e, mdl, dbh, st, req, id, now) ==
    IF r = "app" THEN PostPredictHandlerApp(mdl, dbh, st, req, id, now)
    ELSE IF r = "main" THEN PredictHandlerMain(mdl, dbh, st, req, id, now)
    ELSE PredictRouteSvc(e, mdl, st, req, id, now)

Init ==
    /\ pc = "boot"
    /\ rev \in Revisions
    /\ env \in Envs
    /\ model = "None"
    /\ db = "None"
    /\ store = <<>>
    /\ modelDocs = {}
    /\ arrived = 0
    /\ nreq = 0
    /\ nextId = 1
    /\ clock = 1
    /\ issued = {}
    /\ flight = [w \in Workers |-> [stage |-> "idle"]]

\* app.py, module level: the Firebase client and the model are set up, each
\* inside try/except that leaves None behind on failure
BootApp ==
    /\ pc = "boot" /\ rev = "app"
    /\ \E firebaseOk, modelOk \in BOOLEAN :
        /\ db' = IF firebaseOk THEN "client" ELSE "None"
        /\ model' = IF modelOk THEN "loaded" ELSE "None"
    /\ pc' = "serving"
    /\ UNCHANGED <<rev, env, store, modelDocs, arrived, nreq, nextId, clock,
                   issued, flight>>

\* main.py, setup_application(): initialize_firebase(), download_model(),
\* load_model(), and save_model_to_firestore() when the model was loaded
SetupApplication ==
    /\ pc = "boot" /\ rev = "main"
    /\ \E firebaseOk, downloadOk, loadOk, saveOk \in BOOLEAN :
        LET d == IF firebaseOk THEN "client" ELSE "None"
            m == IF downloadOk /\ loadOk THEN "loaded" ELSE "None"
        IN  /\ db' = d
            /\ model' = m
            /\ modelDocs' = IF m # "None" /\ d # "None" /\ saveOk
                            THEN {"model_json"} ELSE {}
    /\ pc' = "serving"
    /\ UNCHANGED <<rev, env, store, arrived, nreq, nextId, clock, issued,
                   flight>>

\* server.py, module level: the imports of lines 2-4 (routes, which imports
\* handler, which imports services.inference_service and services.store_data;
\* services.load_model; exceptions.input_error) name modules the repository
\* does not have, so the import of server.py raises before load_model() is
\* called, and nothing is served
BootServer ==
    /\ pc = "boot" /\ rev = "server"
    /\ pc' = "crashed"
    /\ UNCHANGED <<rev, env, model, db, store, modelDocs, arrived, nreq, nextId,
                   clock, issued, flight>>

\* the workers that hold a request
InFlight == {w \in Workers : flight[w].stage # "idle"}

\* the documents outcome out writes to the collection st it was given
WritesOf(out, st) ==
    LET ids == {i \in DOMAIN out.store :
                   i \notin DOMAIN st \/ out.store[i] # st[i]}
    IN  [i \in ids |-> out.store[i]]

\* a request reaches worker thread w, the first one free, whatever the other
\* threads are doing
Arrive(w) ==
    /\ pc = "serving"
    /\ arrived < MaxRequests
    /\ flight[w].stage = "idle"
    /\ \A v \in 1..(w - 1) : flight[v].stage # "idle"
    /\ \E req \in Requests :
        flight' = [flight EXCEPT ![w] = [stage |-> "received", req |-> req]]
    /\ arrived' = arrived + 1
    /\ UNCHANGED <<pc, rev, env, model, db, store, modelDocs, nreq, nextId,
                   clock, issued>>

\* what a worker holds of a request once its handler has built the response:
\* the response, the steps taken, and the documents the handler writes
Held(stage, req, out, id, now) ==
    [stage |-> stage, req |-> req, resp |-> out.resp, steps |-> out.steps,
     writes |-> WritesOf(out, store), id |-> id, now |-> now]

\* the handler of worker w got as far as outcome out says without reading
\* the clock
Begun(w, out) ==
    /\ flight' = [flight EXCEPT ![w] =
                     IF out.uuids = 0
                     THEN Held("answering", flight[w].req, out, 0, 0)
                     ELSE [stage |-> "drawn", req |-> flight[w].req,
                           id |-> nextId]]
    /\ nextId' = nextId + out.uuids

\* worker w runs its handler from the first line up to and including the
\* uuid draw: it reads the model handle, checks, reads the upload and
\* classifies.  A handler that returns or raises before the draw has its
\* response at this point and has written nothing.
Begin(w) ==
    /\ flight[w].stage = "received"
    /\ Begun(w, HandlePredict(rev, env, model, db, store, flight[w].req,
                              nextId, clock))
    /\ UNCHANGED <<pc, rev, env, model, db, store, modelDocs, arrived, nreq,
                   clock, issued>>

\* worker w reads the clock, datetime.now(), and builds the record and the
\* response from the id it drew and the time it read; every reading of the
\* clock is later than the one before
ReadClock(w) ==
    /\ flight[w].stage = "drawn"
    /\ flight' = [flight EXCEPT ![w] =
                     Held("built", flight[w].req,
                          HandlePredict(rev, env, model, db, store,
                                        flight[w].req, flight[w].id, clock),
                          flight[w].id, clock)]
    /\ clock' = clock + 1
    /\ UNCHANGED <<pc, rev, env, model, db, store, modelDocs, arrived, nreq,
                   nextId, issued>>

\* worker w's write reaches the collection, document(id).set(data), if its
\* handler writes at all
Write(w) ==
    /\ flight[w].stage = "built"
    /\ store' = flight[w].writes @@ store
    /\ flight' = [flight EXCEPT ![w].stage = "answering"]
    /\ UNCHANGED <<pc, rev, env, model, db, modelDocs, arrived, nreq, nextId,
                   clock, issued>>

\* worker w returns its response and is free again
Respond(w) ==
    /\ flight[w].stage = "answering"
    /\ nreq' = nreq + 1
    /\ issued' = IF flight[w].resp.code = 201 /\ HasData(flight[w].resp)
                 THEN issued \cup {flight[w].resp.data.id} ELSE issued
    /\ flight' = [flight EXCEPT ![w] = [stage |-> "idle"]]
    /\ UNCHANGED <<pc, rev, env, model, db, store, modelDocs, arrived, nextId,
                   clock>>

Next ==
    \/ BootApp
    \/ SetupApplication
    \/ BootServer
    \/ \E w \in Workers : Arrive(w)
    \/ \E w \in Workers : Begin(w)
    \/ \E w \in Workers : ReadClock(w)
    \/ \E w \in Workers : Write(w)
    \/ \E w \in Workers : Respond(w)

Spec == Init /\ [][Next]_vars

-----------------------------------------------------------------------------
(* Properties                                                              *)

\* the requests whose handler has ended and whose response is on its way
\* back: every request is in this set once, between its handler's last step
\* and its response
Handled == {flight[w] : w \in {v \in Workers : flight[v].stage = "answering"}}

Did(h, step) == \E i \in 1..Len(h.steps) : h.steps[i] = step

\* the handler of the request wrote no document to the prediction collection
WroteNothing(h) == DOMAIN h.writes = {}

\* C1: a request handled while the model handle is absent is answered 500
\* with status "error", and the handler does nothing else: the file field is
\* not looked at (so a request without image is not answered 400), the model
\* is not invoked and nothing is written to the store.
C1_ModelAbsentIs500BeforeFile ==
    \A h \in Handled :
        model = "None" =>
            /\ h.resp.code = 500
            /\ h.resp.status = "error"
            /\ h.steps = <<"check_model">>
            /\ WroteNothing(h)

\* a request without image field was answered while the model was absent
C1_Witness ==
    \E h \in Handled :
        /\ model = "None"
        /\ ~h.req.hasImage
        /\ h.resp.code = 500

\* C2: with the model loaded, a request without a file field "image" is
\* answered 400 with status "fail"; the classifier is not invoked and no
\* record is submitted to the store.
C2_NoImageIs400Fail ==
    \A h \in Handled :
        (model # "None" /\ ~h.req.hasImage) =>
            /\ h.resp.code = 400
            /\ h.resp.status = "fail"
            /\ ~Did(h, "predict")
            /\ ~Did(h, "store")
            /\ WroteNothing(h)

\* C3: with the model loaded, a request whose image bytes cannot be decoded
\* is answered 400 with status "fail", and no record is submitted.
C3_UndecodableIs400Fail ==
    \A h \in Handled :
        (model # "None" /\ h.req.hasImage /\ ~h.req.imageOk) =>
            /\ h.resp.code = 400
            /\ h.resp.status = "fail"
            /\ ~Did(h, "store")
            /\ WroteNothing(h)

\* the request was classified: the classifier returned a label, a confidence
\* and the advisory pair
Classified(h) == Did(h, "advise")

\* the confidence of a classified request, max score * 100, in percent * Scale
ConfidenceOf(h) ==
    LET v == h.req.scores
    IN  100 * (CHOOSE m \in {v[i] : i \in 1..Len(v)} :
                   \A j \in 1..Len(v) : v[j] <= m)

\* the messages that say the prediction succeeded, as opposed to those that
\* say it succeeded below the threshold
SuccessMessages == {"Model is predicted successfully.", "Prediksi berhasil"}

\* C4: a request that was classified is answered 201 whatever its
\* confidence, and its message is the "prediction succeeded" message exactly
\* when the confidence is strictly greater than 50.0.
C4_Threshold50 ==
    \A h \in Handled :
        Classified(h) =>
            /\ h.resp.code = 201
            /\ (h.resp.message \in SuccessMessages) <=> (ConfidenceOf(h) > 50 * Scale)

\* the response to the same request handled by the same revision with the
\* same handles, uuid and clock reading, the store alone behaving the other
\* way
WithOtherStore(h) ==
    HandlePredict(rev, env, model, db, <<>>,
                  [h.req EXCEPT !.storeRaises = ~h.req.storeRaises],
                  h.id, h.now).resp

\* C5: the response (code and body) to a request is the same whether the
\* store raises on the write or works.
C5_StoreFailureInvisible ==
    \A h \in Handled : h.resp = WithOtherStore(h)

\* a classified request during which the store raised is answered 201, its
\* record missing from the collection
C5_Witness ==
    \E h \in Handled :
        /\ db # "None" /\ h.req.storeRaises
        /\ h.resp.code = 201 /\ HasData(h.resp)
        /\ h.resp.data.id \notin DOMAIN store

\* no write that is still to come replaces a document of the collection
KeptAll ==
    \A w \in {v \in Workers : flight[v].stage = "built"} :
        \A id \in DOMAIN flight[w].writes : id \notin DOMAIN store

\* no request is being handled
Quiescent == InFlight = {}

\* C6 as claimed: the store holds exactly one record per request answered
\* 201, under the id of that response; a record is written only after classification
\* and advisory lookup, a request answered 400 or 500 writes none, and no
\* record is overwritten or deleted.
C6_OneRecordPer201 ==
    /\ Quiescent => DOMAIN store = issued
    /\ issued \subseteq DOMAIN store
    /\ KeptAll
    /\ \A id \in DOMAIN store : store[id].id = id
    /\ \A h \in Handled :
        /\ (HasData(h.resp) /\ h.resp.code = 201) =>
               /\ h.resp.data.id \in DOMAIN store
               /\ store[h.resp.data.id] = h.resp.data
        /\ ~WroteNothing(h) => Classified(h)
        /\ h.resp.code \in {400, 500} => WroteNothing(h)

\* the write of the record of a request succeeds
WriteWorks(h) == db # "None" /\ ~h.req.storeRaises

\* C6: the store holds at most one record per request answered 201, under
\* the id of that response, and exactly one when the store client exists and
\* the write does not raise (a 201 whose write fails leaves no record); a
\* record is written only after classification and advisory lookup, a
\* request answered 400 or 500 writes none, and no step overwrites or
\* deletes a record.
C6_OneRecordPerWritten201 ==
    /\ [](/\ \A id \in DOMAIN store :
                /\ store[id].id = id
                /\ \/ id \in issued
                   \/ \E h \in Handled :
                         /\ h.resp.code = 201 /\ HasData(h.resp)
                         /\ h.resp.data.id = id
          /\ KeptAll
          /\ \A h \in Handled :
                /\ (HasData(h.resp) /\ h.resp.code = 201) =>
                       IF WriteWorks(h)
                       THEN /\ h.resp.data.id \in DOMAIN store
                            /\ store[h.resp.data.id] = h.resp.data
                       ELSE h.resp.data.id \notin DOMAIN store
                /\ ~WroteNothing(h) => Classified(h)
                /\ h.resp.code \in {400, 500} => WroteNothing(h))
    /\ [][\A id \in DOMAIN store :
              id \in DOMAIN store' /\ store'[id] = store[id]]_vars

\* a request answered 201 whose write failed, beside the stored record of
\* another request answered 201
C6_Witness ==
    \E h \in Handled :
        /\ h.resp.code = 201 /\ HasData(h.resp)
        /\ ~WriteWorks(h)
        /\ h.resp.data.id \notin DOMAIN store
        /\ \E id \in issued : id \in DOMAIN store /\ id # h.resp.data.id

\* C7: when the image decodes but the model invocation fails, or the model
\* returns a score vector whose length is not the number of classes, the
\* request is answered 500 with status "error", not 400.
C7_InferenceFailureIs500 ==
    \A h \in Handled :
        ( /\ model # "None" /\ h.req.hasImage /\ h.req.imageOk
          /\ (h.req.modelRaises \/ Len(h.req.scores) # Len(classes)) ) =>
            /\ h.resp.code = 500
            /\ h.resp.status = "error"

\* C8: code and status are paired in one fixed way, 201/"success",
\* 400/"fail", 500/"error"; a missing or undecodable image gives 400/"fail",
\* an absent model 500/"error".
C8_CodeStatusPairs ==
    \A h \in Handled :
        /\ <<h.resp.code, h.resp.status>> \in
               {<<201, "success">>, <<400, "fail">>, <<500, "error">>}
        /\ model = "None" => h.resp.code = 500
        /\ (model # "None" /\ (~h.req.hasImage \/ ~h.req.imageOk)) =>
               h.resp.code = 400

\* the confidence a record carries, under the name the revision gives it;
\* app.py keeps none
ConfidenceFields(d) ==
    {d[f] : f \in {"confidence", "confidenceScore"} \cap DOMAIN d}

\* label is the class at the smallest index that holds the largest score
IsArgMaxLabel(label, v) ==
    \E i \in 1..Len(v) :
        /\ i <= Len(classes) /\ label = classes[i]
        /\ \A j \in 1..Len(v) : v[j] <= v[i]
        /\ \A j \in 1..(i - 1) : v[j] < v[i]

\* C9: the label of every classified request is the class at the arg-max
\* index, the lowest index on ties, one of the three classes; its confidence
\* is the largest score times 100 and lies in [0,100]; the same holds of the
\* result and the confidence of every record stored or returned.
C9_LabelAndConfidence ==
    /\ \A h \in Handled :
        HasData(h.resp) =>
            /\ h.resp.data.result \in ClassSet
            /\ IsArgMaxLabel(h.resp.data.result, h.req.scores)
            /\ \A c \in ConfidenceFields(h.resp.data) :
                   /\ IsNum(c)
                   /\ c.num = ConfidenceOf(h)
                   /\ c.num >= 0 /\ c.num <= 100 * Scale
    /\ \A id \in DOMAIN store :
        /\ store[id].result \in ClassSet
        /\ \A c \in ConfidenceFields(store[id]) :
               IsNum(c) /\ c.num >= 0 /\ c.num <= 100 * Scale

\* a tie of the second and the third class was classified as the second,
\* at confidence 50.0, and its record is stored
C9_Witness ==
    \E h \in Handled :
        /\ HasData(h.resp)
        /\ h.req.scores = <<0, Half, Half>>
        /\ h.resp.data.result = classes[2]
        /\ h.resp.data.id \in DOMAIN store
        /\ \E c \in ConfidenceFields(store[h.resp.data.id]) : c.num = 50 * Scale

\* every record the state holds: the stored ones and the ones being returned
Records ==
    {store[id] : id \in DOMAIN store}
    \cup {h.resp.data : h \in {x \in Handled : HasData(x.resp)}}

\* the advisory texts a record carries (app.py keeps no explanation)
AdvisoryOf(d) ==
    <<IF "explanation" \in DOMAIN d THEN d.explanation ELSE "-", d.suggestion>>

Blank == {"", "None"}

\* the advisory lookup of the running revision
Lookup(label) ==
    IF rev = "app" THEN AdvisoryApp(label)
    ELSE IF rev = "main" THEN AdvisoryMain(label)
    ELSE AdvisorySvc(label)

\* C10: the advisory lookup gives each of the three labels its own pair of
\* texts: two records carry the same pair exactly when they carry the same
\* label, whatever their confidence, timestamp or place in the history, and
\* no record carries an empty or default explanation or suggestion.
C10_AdvisoryFixedPerLabel ==
    /\ \A l1, l2 \in ClassSet :
        /\ Lookup(l1).explanation \notin Blank
        /\ Lookup(l1).suggestion \notin Blank
        /\ l1 # l2 => /\ Lookup(l1).explanation # Lookup(l2).explanation
                      /\ Lookup(l1).suggestion # Lookup(l2).suggestion
    /\ \A d \in Records :
        /\ d.suggestion \notin Blank
        /\ "explanation" \in DOMAIN d => d.explanation \notin Blank
        /\ d.result \in ClassSet =>
               /\ d.suggestion = Lookup(d.result).suggestion
               /\ "explanation" \in DOMAIN d =>
                      d.explanation = Lookup(d.result).explanation
        /\ \A d2 \in Records :
               /\ (d.result = d2.result) <=> (AdvisoryOf(d) = AdvisoryOf(d2))
               /\ (d.result = d2.result) <=> (d.suggestion = d2.suggestion)

\* two requests of the same label, differing in confidence and timestamp,
\* were classified and both records are stored
C10_Witness ==
    /\ \E a, b \in DOMAIN store :
        /\ a # b
        /\ store[a].result = store[b].result
        /\ ConfidenceFields(store[a]) # ConfidenceFields(store[b])
        /\ store[a].createdAt # store[b].createdAt
        /\ store[a].suggestion = store[b].suggestion

\* what a caller can tell of a response apart from the fresh id and the time
\* of its record: code, status, message, label and advisory
Observable(resp) ==
    IF HasData(resp)
    THEN [code |-> resp.code, status |-> resp.status, message |-> resp.message,
          result |-> resp.data.result, advisory |-> AdvisoryOf(resp.data)]
    ELSE [code |-> resp.code, status |-> resp.status, message |-> resp.message]

\* the response to request req when it is the only request the process ever
\* gets: empty collection, first uuid, first reading of the clock
Alone(req) ==
    Observable(HandlePredict(rev, env, model, db, <<>>, req, 1, 1).resp)

\* the workers whose handler has built its response
Built == {w \in Workers : flight[w].stage \in {"built", "answering"}}

\* C11: under any interleaving of requests handled at the same time, no
\* step of a request changes the model handle or the store client once the
\* process serves, and the response of every request (code, status, label,
\* advisory, message) is the one the same request gets when handled alone
\* with the same model handle, whatever the other requests and their order.
C11_RequestsIndependent ==
    /\ [](\A w \in Built : Observable(flight[w].resp) = Alone(flight[w].req))
    /\ [][pc = "serving" => (model' = model /\ db' = db /\ pc' = pc)]_vars

\* two different requests are in flight at once and the later one has
\* overtaken the earlier one: both were classified, the earlier one drew its
\* uuid first and read the clock last, the later one's record is in the
\* collection and the earlier one's write is still to come
C11_Witness ==
    \E a, b \in Workers :
        /\ flight[a].stage = "built"
        /\ flight[b].stage = "answering"
        /\ flight[a].id < flight[b].id
        /\ flight[a].now > flight[b].now
        /\ flight[a].req # flight[b].req
        /\ HasData(flight[a].resp) /\ HasData(flight[b].resp)
        /\ flight[b].id \in DOMAIN store
        /\ flight[a].id \notin DOMAIN store

====
